---------------------------- MODULE Spec2Model ----------------------------
(***************************************************************************)
(* The media-fetch pipeline of src/main.py: download_emojis and            *)
(* download_stickers.  One run of one kind is modelled: the manifest list  *)
(* read from response.json, the asyncio.Semaphore admission gate, one      *)
(* coroutine per record with its suspension points (session.get and        *)
(* response.read), the closure state shared by the coroutines              *)
(* (downloaded_count, failed_count, errors, used_filenames), the output    *)
(* folder and the error log.  A run may be repeated against the same       *)
(* output directory (SpecRerun).                                           *)
(*                                                                         *)
(* Strings are sequences of one-character strings, so that a file name is  *)
(* really the concatenation base \o digits \o extension.                   *)
(***************************************************************************)
EXTENDS Integers, Sequences, FiniteSets, TLC

VARIABLES
    kind,             \* "emoji" (download_emojis) or "sticker" (download_stickers)
    items,            \* the list json.load(f)['data'][...] of this kind
    max_concurrent,   \* the max_concurrent argument
    runsLeft,         \* further invocations against the same output directory
    phase,            \* "running" (inside gather) or "finished" (function returned)
    permits,          \* the semaphore's value
    pc,               \* each coroutine's position
    reqs,             \* per item: the requests it issued, with their results
    produced,         \* per item: the counter increments it made, in order
    escaped,          \* per item: an exception left the coroutine (gather kept it)
    reserved,         \* per item: the names get_unique_filename returned to it
    wrote,            \* per item: the writes it attempted on the output folder
    downloaded_count,
    failed_count,
    errors,           \* the errors list
    used_filenames,   \* the used_filenames set (emoji runs only)
    files,            \* the output folder: path -> content
    logs              \* the error log file of this kind: the contents it has
                      \* held, oldest first; the file now is the last, and an
                      \* empty list is no file

vars == <<kind, items, max_concurrent, runsLeft, phase, permits, pc, reqs,
          produced, escaped, reserved, wrote, downloaded_count, failed_count,
          errors, used_filenames, files, logs>>

-----------------------------------------------------------------------------
(* Bounds *)

NumItems == 2
MaxLimit == 2
RerunItems == 1
NameItems == 3
MaxNameLen == 3

-----------------------------------------------------------------------------
(* Strings *)

\* a key the record does not have
Absent == "<absent>"
NoName == <<Absent>>

DigitChar(d) == CASE d = 0 -> "0" [] d = 1 -> "1" [] d = 2 -> "2" [] d = 3 -> "3"
                  [] d = 4 -> "4" [] d = 5 -> "5" [] d = 6 -> "6" [] d = 7 -> "7"
                  [] d = 8 -> "8" [] OTHER -> "9"

RECURSIVE Str(_)
Str(n) == IF n < 10 THEN <<DigitChar(n)>>
          ELSE Str(n \div 10) \o <<DigitChar(n % 10)>>

GIF == <<".", "g", "i", "f">>
WEBP == <<".", "w", "e", "b", "p">>
PNG == <<".", "p", "n", "g">>


Unnamed == <<"u", "n", "n", "a", "m", "e", "d">>

IllegalChars == {"<", ">", ":", "\"", "/", "\\", "|", "?", "*"}

ReplaceIllegal(s) == [k \in 1..Len(s) |-> IF s[k] \in IllegalChars THEN "_" ELSE s[k]]

RECURSIVE RStrip(_)
RStrip(s) == IF s = <<>> THEN s
             ELSE IF s[Len(s)] \in {".", " "} THEN RStrip(SubSeq(s, 1, Len(s) - 1))
             ELSE s

\* the result without the 'if not filename' default
sanitize_filename_undefaulted(filename) == RStrip(ReplaceIllegal(filename))

sanitize_filename(filename) ==
    LET stripped == RStrip(ReplaceIllegal(filename))
    IN  IF stripped = <<>> THEN Unnamed ELSE stripped

-----------------------------------------------------------------------------
(* get_unique_filename: the name returned for (base_name, extension) when   *)
(* the names in used are taken.  The caller adds the result to              *)
(* used_filenames in the same step (the function never awaits).             *)

RECURSIVE ProbeFrom(_, _, _, _)
ProbeFrom(base_name, extension, counter, used) ==
    LET filename == base_name \o Str(counter) \o extension
    IN  IF filename \notin used THEN filename
        ELSE ProbeFrom(base_name, extension, counter + 1, used)

\* the name were the registry not consulted
get_unique_filename_unprobed(base_name, extension, used) == base_name \o extension

get_unique_filename(base_name, extension, used) ==
    LET filename == base_name \o extension
    IN  IF filename \notin used THEN filename
        ELSE ProbeFrom(base_name, extension, 1, used)

-----------------------------------------------------------------------------
(* The manifest *)

EmojiNames == { <<"a">>, <<"a", "1">> }
StickerNames == { <<"a">>, <<"a", "?">>, <<"a", "_">> }

EmojiRecords ==
    [name : EmojiNames, animated : {"true", "false", Absent}]
        \cup { [name |-> NoName, animated |-> "false"] }

StickerRecords == [name : StickerNames \cup {NoName}]

Lists(S, n) == UNION { [1..k -> S] : k \in 1..n }

Manifests(k, n) == IF k = "emoji" THEN Lists(EmojiRecords, n)
                   ELSE Lists(StickerRecords, n)

Idx == 1..Len(items)

\* emoji.get('animated', False), tested for truth
is_animated(emoji) == emoji.animated = "true"

initial_extension(emoji) == IF is_animated(emoji) THEN GIF ELSE WEBP

-----------------------------------------------------------------------------
(* The output directory *)

NoLog == << >>

\* the header line, the line of "=" and one line per error; run records which
\* invocation wrote the text (the number of invocations still to come)
LogText(errs, item_type) ==
    [item_type |-> item_type, count |-> Len(errs), body |-> errs, run |-> runsLeft]

\* the text after writing errs in mode 'a' instead
save_error_log_appending(old, errs, item_type) ==
    IF errs # <<>>
    THEN Append(old, LogText((IF old # <<>> THEN old[Len(old)].body ELSE <<>>) \o errs,
                             item_type))
    ELSE old

\* save_error_log: if errors, open(error_log_file, 'w') and the writes
save_error_log(old, errs, item_type) ==
    IF errs # <<>> THEN Append(old, LogText(errs, item_type)) ELSE old

LogExists == logs # << >>

LogNow == logs[Len(logs)]

Folder == IF kind = "emoji" THEN "emojis" ELSE "stickers"

Path(filename) == <<Folder, "/">> \o filename

\* the folder after the writes ws (path, content), applied in order
RECURSIVE Store(_, _)
Store(fs, ws) ==
    IF ws = <<>> THEN fs
    ELSE LET w == Head(ws)
             nfs == [p \in DOMAIN fs \cup {w.path} |->
                        IF p = w.path THEN w.content ELSE fs[p]]
         IN  Store(nfs, Tail(ws))

-----------------------------------------------------------------------------
(* The state at the start of a run: counters zero, errors and              *)
(* used_filenames empty, the semaphore full, every coroutine created by    *)
(* gather and not yet admitted.                                            *)

StartRun ==
    /\ phase = "running"
    /\ permits = max_concurrent
    /\ pc = [i \in Idx |-> "wait"]
    /\ reqs = [i \in Idx |-> <<>>]
    /\ produced = [i \in Idx |-> <<>>]
    /\ escaped = [i \in Idx |-> FALSE]
    /\ reserved = [i \in Idx |-> <<>>]
    /\ wrote = [i \in Idx |-> <<>>]
    /\ downloaded_count = 0
    /\ failed_count = 0
    /\ errors = <<>>
    /\ used_filenames = {}

InitWith(n, runs) ==
    /\ kind \in {"emoji", "sticker"}
    /\ items \in Manifests(kind, n)
    /\ max_concurrent \in 1..MaxLimit
    /\ runsLeft = runs
    /\ files = << >>
    /\ logs = NoLog
    /\ StartRun

Init == InitWith(NumItems, 0)

\* emoji runs of well-formed still records whose names collide: "a" and "a1"
NameRecords == [name : EmojiNames, animated : {"false"}]

InitNames ==
    /\ kind = "emoji"
    /\ items \in [1..NameItems -> NameRecords]
    /\ max_concurrent \in 1..MaxLimit
    /\ runsLeft = 0
    /\ files = << >>
    /\ logs = NoLog
    /\ StartRun

InitRerun == InitWith(RerunItems, 1)

\* names over a letter, an illegal character, the dot and the space
NameChars == {"a", "?", ".", " "}

Strings(n) == UNION { [1..k -> NameChars] : k \in 0..n }

\* runs over one well-formed record (an emoji not animated, or a sticker) of
\* any such name
InitStrings ==
    /\ kind \in {"emoji", "sticker"}
    /\ \E s \in Strings(MaxNameLen) :
         items = IF kind = "emoji" THEN <<[name |-> s, animated |-> "false"]>>
                 ELSE <<[name |-> s]>>
    /\ max_concurrent \in 1..MaxLimit
    /\ runsLeft = 0
    /\ files = << >>
    /\ logs = NoLog
    /\ StartRun

-----------------------------------------------------------------------------
(* The admission gate: async with semaphore.  gather starts the coroutines *)
(* in list order and asyncio.Semaphore wakes its waiters first in, first   *)
(* out, so the records are admitted in list order.                         *)

\* a gate that admits whatever the value
CanAcquireUngated(i) == TRUE

\* Semaphore.acquire returns only while the value is positive
CanAcquire(i) == permits > 0

InGate(i) == pc[i] \notin {"wait", "done"}

\* name = item['name'] raises KeyError before the try: the exception leaves
\* the coroutine through the semaphore's __aexit__ and gather keeps it.
Acquire(i) ==
    /\ phase = "running"
    /\ pc[i] = "wait"
    /\ \A j \in 1..(i - 1) : pc[j] # "wait"
    /\ CanAcquire(i)
    /\ IF items[i].name = NoName
       THEN /\ pc' = [pc EXCEPT ![i] = "done"]
            /\ escaped' = [escaped EXCEPT ![i] = TRUE]
            /\ UNCHANGED <<permits, reqs>>
       ELSE /\ permits' = permits - 1
            /\ pc' = [pc EXCEPT ![i] = IF kind = "emoji" THEN "initial" ELSE "request"]
            /\ reqs' = [reqs EXCEPT ![i] =
                          <<[ext |-> IF kind = "emoji" THEN initial_extension(items[i])
                                     ELSE PNG,
                             res |-> "pending", body |-> "unread", stored |-> "none",
                             werr |-> {}]>>]
            /\ UNCHANGED escaped
    /\ UNCHANGED <<kind, items, max_concurrent, runsLeft, phase, produced, reserved,
                   wrote, downloaded_count, failed_count, errors, used_filenames,
                   files, logs>>

-----------------------------------------------------------------------------
(* What session.get and response.read can answer *)

Statuses == {"200", "415", "404"}
GetResults == Statuses \cup {"exc"}     \* "exc": a transport exception or a timeout
ReadResults == {"ok", "exc"}
WriteResults == {"ok", "err"}           \* write_bytes: done, or OSError

\* the result of the request in flight, and of reading its body, is recorded
Answered(rs, res) == [rs EXCEPT ![Len(rs)].res = res]

BodyRead(rs, r) == [rs EXCEPT ![Len(rs)].body = r]

\* how the code after the read ended: "ok", "write_error" (write_bytes raised),
\* or "uncaught" (a Pillow step raised a class only the outer except catches)
Stored(rs, how) == [rs EXCEPT ![Len(rs)].stored = how]

\* the writes of the item on which the filesystem raised OSError: "raw"
\* (write_bytes), "still" (save_png_from_image), "gif" (frames[0].save)
WriteErrors(rs, steps) == [rs EXCEPT ![Len(rs)].werr = steps]

\* a permit taken with acquire() and never given back
ReleaseNone == permits

\* a semaphore.release() after the read, on top of the one of __aexit__
ReleaseTwice == permits + 2

\* the item leaves the gate: the semaphore's __aexit__ releases the permit
Release == permits + 1

\* f"Failed to download ... '{name}' (ID: {id}): HTTP {status} - {url}", with
\* "(tried both .gif and .webp)" when both
HttpError(i, status, both) ==
    [kind |-> "http", item |-> i, name |-> items[i].name, status |-> status,
     both |-> both, url |-> reqs[i][1].ext]

\* the message were name and id read from the loop's last record
ExceptionErrorOfLastItem(i) ==
    [kind |-> "exception", item |-> Len(items), name |-> items[Len(items)].name,
     status |-> "exc", both |-> FALSE, url |-> reqs[i][1].ext]

\* f"Exception downloading ... '{name}' (ID: {id}): {str(e)} - {url}"
ExceptionError(i) ==
    [kind |-> "exception", item |-> i, name |-> items[i].name, status |-> "exc",
     both |-> FALSE, url |-> reqs[i][1].ext]

\* the names returned to an item, each with the registry it was probed against,
\* are added to used_filenames
Reserve(i, names) ==
    /\ reserved' = [reserved EXCEPT ![i] =
                      @ \o [k \in 1..Len(names) |->
                               [name |-> names[k], used |-> used_filenames]]]
    /\ used_filenames' = used_filenames \cup { names[k] : k \in 1..Len(names) }

\* the reason appended without failed_count += 1
RecordFailureUncounted(i, err) ==
    /\ errors' = Append(errors, err)
    /\ UNCHANGED <<failed_count, produced>>

\* errors.append(error_msg); failed_count += 1
RecordFailure(i, err) ==
    /\ errors' = Append(errors, err)
    /\ failed_count' = failed_count + 1
    /\ produced' = [produced EXCEPT ![i] = Append(@, "Failed")]

\* the failure branches of an emoji were the name taken before the status test
FailHoldingName(i, err, rs, names, ws) ==
    /\ RecordFailure(i, err)
    /\ reqs' = [reqs EXCEPT ![i] = rs]
    /\ Reserve(i, IF names = <<>> /\ kind = "emoji"
                  THEN <<get_unique_filename(items[i].name, rs[Len(rs)].ext,
                                             used_filenames)>>
                  ELSE names)
    /\ wrote' = [wrote EXCEPT ![i] = @ \o ws]
    /\ files' = Store(files, ws)
    /\ pc' = [pc EXCEPT ![i] = "done"]
    /\ permits' = Release
    /\ UNCHANGED <<kind, items, max_concurrent, runsLeft, phase, escaped,
                   downloaded_count, logs>>

\* a branch that records a failure, and the coroutine ends
Fail(i, err, rs, names, ws) ==
    /\ RecordFailure(i, err)
    /\ reqs' = [reqs EXCEPT ![i] = rs]
    /\ Reserve(i, names)
    /\ wrote' = [wrote EXCEPT ![i] = @ \o ws]
    /\ files' = Store(files, ws)
    /\ pc' = [pc EXCEPT ![i] = "done"]
    /\ permits' = Release
    /\ UNCHANGED <<kind, items, max_concurrent, runsLeft, phase, escaped,
                   downloaded_count, logs>>

\* downloaded_count += 1, and the coroutine ends
Succeed(i, rs, names, ws) ==
    /\ downloaded_count' = downloaded_count + 1
    /\ produced' = [produced EXCEPT ![i] = Append(@, "Success")]
    /\ reqs' = [reqs EXCEPT ![i] = rs]
    /\ Reserve(i, names)
    /\ wrote' = [wrote EXCEPT ![i] = @ \o ws]
    /\ files' = Store(files, ws)
    /\ pc' = [pc EXCEPT ![i] = "done"]
    /\ permits' = Release
    /\ UNCHANGED <<kind, items, max_concurrent, runsLeft, phase, escaped,
                   failed_count, errors, logs>>

-----------------------------------------------------------------------------
(* download_single_emoji *)

\* the test without 'and is_animated'
NeedsFallbackOn415(emoji, status) == status = "415"

\* elif response.status == 415 and is_animated
NeedsFallback(emoji, status) == status = "415" /\ is_animated(emoji)

\* the name were built with initial_extension after the fallback too
InitialExtensionOf(rs) == rs[1].ext

\* the extension of the request whose body was read (initial_extension, or '.webp')
FetchedExtension(rs) == rs[Len(rs)].ext

\* the initial request answers
EmojiInitial(i) ==
    /\ phase = "running" /\ kind = "emoji" /\ pc[i] = "initial"
    /\ \E res \in GetResults :
         LET rs == Answered(reqs[i], res)
         IN  IF res = "exc" THEN Fail(i, ExceptionError(i), rs, <<>>, <<>>)
             ELSE IF res = "200"
             THEN /\ pc' = [pc EXCEPT ![i] = "read"]
                  /\ reqs' = [reqs EXCEPT ![i] = rs]
                  /\ UNCHANGED <<kind, items, max_concurrent, runsLeft, phase, permits,
                                 produced, escaped, reserved, wrote, downloaded_count,
                                 failed_count, errors, used_filenames, files, logs>>
             ELSE IF NeedsFallback(items[i], res)
             THEN /\ pc' = [pc EXCEPT ![i] = "fallback"]
                  /\ reqs' = [reqs EXCEPT ![i] =
                                Append(rs, [ext |-> WEBP, res |-> "pending", body |-> "unread",
                                            stored |-> "none", werr |-> {}])]
                  /\ UNCHANGED <<kind, items, max_concurrent, runsLeft, phase, permits,
                                 produced, escaped, reserved, wrote, downloaded_count,
                                 failed_count, errors, used_filenames, files, logs>>
             ELSE Fail(i, HttpError(i, res, FALSE), rs, <<>>, <<>>)

\* the .webp request answers
EmojiFallback(i) ==
    /\ phase = "running" /\ kind = "emoji" /\ pc[i] = "fallback"
    /\ \E res \in GetResults :
         LET rs == Answered(reqs[i], res)
         IN  IF res = "exc" THEN Fail(i, ExceptionError(i), rs, <<>>, <<>>)
             ELSE IF res = "200"
             THEN /\ pc' = [pc EXCEPT ![i] = "read"]
                  /\ reqs' = [reqs EXCEPT ![i] = rs]
                  /\ UNCHANGED <<kind, items, max_concurrent, runsLeft, phase, permits,
                                 produced, escaped, reserved, wrote, downloaded_count,
                                 failed_count, errors, used_filenames, files, logs>>
             ELSE Fail(i, HttpError(i, res, TRUE), rs, <<>>, <<>>)

\* what a completed write leaves at path
Written(i, path, form) == <<[path |-> path, content |-> [id |-> i, form |-> form]]>>

\* response.read() returns or raises; then, without awaiting, the name is
\* reserved, the bytes are written and the counter is bumped
EmojiRead(i) ==
    /\ phase = "running" /\ kind = "emoji" /\ pc[i] = "read"
    /\ \E r \in ReadResults :
         LET rs == BodyRead(reqs[i], r)
         IN  IF r = "exc" THEN Fail(i, ExceptionError(i), rs, <<>>, <<>>)
             ELSE LET filename == get_unique_filename(items[i].name, FetchedExtension(rs),
                                                      used_filenames)
                  IN  \E w \in WriteResults :
                        IF w = "ok"
                        THEN Succeed(i, Stored(rs, "ok"), <<filename>>,
                                     Written(i, Path(filename), "raw"))
                        ELSE Fail(i, ExceptionError(i),
                                  WriteErrors(Stored(rs, "write_error"), {"raw"}),
                                  <<filename>>, <<>>)

-----------------------------------------------------------------------------
(* download_single_sticker *)

\* the request answers
StickerResponse(i) ==
    /\ phase = "running" /\ kind = "sticker" /\ pc[i] = "request"
    /\ \E res \in GetResults :
         LET rs == Answered(reqs[i], res)
         IN  IF res = "exc" THEN Fail(i, ExceptionError(i), rs, <<>>, <<>>)
             ELSE IF res = "200"
             THEN /\ pc' = [pc EXCEPT ![i] = "read"]
                  /\ reqs' = [reqs EXCEPT ![i] = rs]
                  /\ UNCHANGED <<kind, items, max_concurrent, runsLeft, phase, permits,
                                 produced, escaped, reserved, wrote, downloaded_count,
                                 failed_count, errors, used_filenames, files, logs>>
             ELSE Fail(i, HttpError(i, res, FALSE), rs, <<>>, <<>>)

(* The Pillow steps run without awaiting once the bytes are in hand.  Each  *)
(* step returns or raises; what matters of an exception is which except    *)
(* clauses name its class.                                                 *)
ExcClasses == {"OSError", "ValueError", "AttributeError", "Other"}

StepResults == {"ok"} \cup ExcClasses

\* except (AttributeError, OSError), around the is_animated test
CaughtByProbe(c) == c \in {"AttributeError", "OSError"}

\* except (IOError, OSError, ValueError), around the GIF conversion
CaughtByConversion(c) == c \in {"OSError", "ValueError"}

\* except (IOError, OSError, ValueError), around the whole Pillow block
CaughtByProcessing(c) == c \in {"OSError", "ValueError"}

\* im.n_frames: 1, or more than one
FrameCounts == {"one", "many"}

\* the outcome of the code after the bytes are read: the counter that is
\* bumped and the writes left in the folder, in order
Done(out, how, ws) == [out |-> out, how |-> how, ws |-> ws, werr |-> {}]

\* the outcomes E that follow a filesystem error of the write named step
WriteFailedAt(E, step) == { [e EXCEPT !.werr = @ \cup {step}] : e \in E }

\* write_bytes inside a try that swallows its OSError
RawFallbackSwallowing(i, safe_name, ws) ==
    { Done("Success", "ok", ws \o Written(i, Path(safe_name \o PNG), "raw")) }
        \cup WriteFailedAt({ Done("Success", "write_error", ws) }, "raw")

\* lines 336-340: write the raw bytes as .png; an OSError goes to the outer except
RawFallback(i, safe_name, ws) ==
    { Done("Success", "ok", ws \o Written(i, Path(safe_name \o PNG), "raw")) }
        \cup WriteFailedAt({ Done("Failed", "write_error", ws) }, "raw")

\* an exception of class c raised inside the Pillow block, after writes ws
Raised(i, safe_name, c, ws) ==
    IF CaughtByProcessing(c) THEN RawFallback(i, safe_name, ws)
    ELSE { Done("Failed", "uncaught", ws) }

\* save_png_from_image to {safe_name}.png
SaveStill(i, safe_name, ws) ==
    { Done("Success", "ok", ws \o Written(i, Path(safe_name \o PNG), "still")) }
        \cup UNION { Raised(i, safe_name, c, ws) : c \in ExcClasses }
        \cup WriteFailedAt(Raised(i, safe_name, "OSError", ws), "still")

\* what a failed frames[0].save may leave at {safe_name}.gif
PartialGif(i, safe_name) ==
    { <<>>, Written(i, Path(safe_name \o GIF), "partial") }

\* lines 302-333: collect the frames and save the GIF; on a caught exception
\* save the first frame as a still .png
ConvertToGif(i, safe_name) ==
    { Done("Success", "ok", Written(i, Path(safe_name \o GIF), "gif")) }
        \cup UNION { IF CaughtByConversion(c) THEN SaveStill(i, safe_name, left)
                     ELSE Raised(i, safe_name, c, left)
                     : c \in ExcClasses, left \in PartialGif(i, safe_name) }
        \cup UNION { WriteFailedAt(SaveStill(i, safe_name, left), "gif")
                     : left \in PartialGif(i, safe_name) }

\* lines 287-340
Process(i, safe_name) ==
    UNION { IF opened # "ok" THEN Raised(i, safe_name, opened, <<>>)
            ELSE UNION { IF probe \in ExcClasses /\ ~CaughtByProbe(probe)
                         THEN Raised(i, safe_name, probe, <<>>)
                         ELSE IF probe \in ExcClasses \/ probe = "one"
                         THEN SaveStill(i, safe_name, <<>>)
                         ELSE ConvertToGif(i, safe_name)
                         : probe \in FrameCounts \cup ExcClasses }
            : opened \in StepResults }

\* response.read() returns or raises; then, without awaiting, the image is
\* processed and the counter is bumped
StickerRead(i) ==
    /\ phase = "running" /\ kind = "sticker" /\ pc[i] = "read"
    /\ \E r \in ReadResults :
         LET rs == BodyRead(reqs[i], r)
         IN  IF r = "exc" THEN Fail(i, ExceptionError(i), rs, <<>>, <<>>)
             ELSE \E e \in Process(i, sanitize_filename(items[i].name)) :
                    LET done == WriteErrors(Stored(rs, e.how), e.werr)
                    IN  IF e.out = "Success" THEN Succeed(i, done, <<>>, e.ws)
                        ELSE Fail(i, ExceptionError(i), done, <<>>, e.ws)

-----------------------------------------------------------------------------
(* After gather: save_error_log and the completion message *)

ItemType == IF kind = "emoji" THEN "Emoji" ELSE "Sticker"

Finish ==
    /\ phase = "running"
    /\ \A i \in Idx : pc[i] = "done"
    /\ logs' = save_error_log(logs, errors, ItemType)
    /\ phase' = "finished"
    /\ UNCHANGED <<kind, items, max_concurrent, runsLeft, permits, pc, reqs, produced,
                   escaped, reserved, wrote, downloaded_count, failed_count, errors,
                   used_filenames, files>>

\* the function is called again on the same response.json and output directory
Rerun ==
    /\ phase = "finished"
    /\ runsLeft > 0
    /\ runsLeft' = runsLeft - 1
    /\ phase' = "running"
    /\ permits' = max_concurrent
    /\ pc' = [i \in Idx |-> "wait"]
    /\ reqs' = [i \in Idx |-> <<>>]
    /\ produced' = [i \in Idx |-> <<>>]
    /\ escaped' = [i \in Idx |-> FALSE]
    /\ reserved' = [i \in Idx |-> <<>>]
    /\ wrote' = [i \in Idx |-> <<>>]
    /\ downloaded_count' = 0
    /\ failed_count' = 0
    /\ errors' = <<>>
    /\ used_filenames' = {}
    /\ UNCHANGED <<kind, items, max_concurrent, files, logs>>

Next ==
    \/ \E i \in Idx : Acquire(i)
    \/ \E i \in Idx : EmojiInitial(i)
    \/ \E i \in Idx : EmojiFallback(i)
    \/ \E i \in Idx : EmojiRead(i)
    \/ \E i \in Idx : StickerResponse(i)
    \/ \E i \in Idx : StickerRead(i)
    \/ Finish

NextRerun == Next \/ Rerun

Spec == Init /\ [][Next]_vars

SpecRerun == InitRerun /\ [][NextRerun]_vars

\* The event loop runs a coroutine that is ready, and every request that was
\* issued returns, raises or times out (ClientTimeout): a step that stays
\* possible is taken.
SpecLive == Init /\ [][Next]_vars /\ WF_vars(Next)

\* the steps of an emoji run over still records, which never take the fallback
NextEmoji ==
    \/ \E i \in Idx : Acquire(i)
    \/ \E i \in Idx : EmojiInitial(i)
    \/ \E i \in Idx : EmojiRead(i)
    \/ Finish

SpecNames == InitNames /\ [][NextEmoji]_vars

\* the steps of runs in which no emoji is animated
NextStill ==
    \/ \E i \in Idx : Acquire(i)
    \/ \E i \in Idx : EmojiInitial(i)
    \/ \E i \in Idx : EmojiRead(i)
    \/ \E i \in Idx : StickerResponse(i)
    \/ \E i \in Idx : StickerRead(i)
    \/ Finish

SpecStrings == InitStrings /\ [][NextStill]_vars

-----------------------------------------------------------------------------
(* Vocabulary of the properties *)

Finished == phase = "finished"

\* every record has the keys the code reads without a default
ValidManifest == \A i \in Idx : items[i].name # NoName

InGateCount == Cardinality({ i \in Idx : InGate(i) })

\* a request of the item is on the network
RequestInFlight(i) == pc[i] \in {"initial", "fallback", "request", "read"}

Count(seq, x) == Cardinality({ k \in 1..Len(seq) : seq[k] = x })

LinesOf(lines, i) == { k \in 1..Len(lines) : lines[k].item = i }

\* session.get or response.read raised for the item (transport error, timeout)
TransportFault(i) ==
    \E k \in 1..Len(reqs[i]) : reqs[i][k].res = "exc" \/ reqs[i][k].body = "exc"

\* the item's last request answered 200, its body was read and stored
OwnStepsSucceeded(i) ==
    /\ reqs[i] # <<>>
    /\ LET last == reqs[i][Len(reqs[i])]
       IN  last.res = "200" /\ last.body = "ok" /\ last.stored = "ok"

-----------------------------------------------------------------------------
(* C1: in download_emojis and in download_stickers the number of items     *)
(* inside the admission gate, which covers every request in flight, never  *)
(* exceeds max_concurrent.                                                 *)
C1_GateBound ==
    /\ InGateCount <= max_concurrent
    /\ permits = max_concurrent - InGateCount

\* the gate is full with requests in flight while another record waits
C1_Witness ==
    /\ InGateCount = max_concurrent
    /\ \E i \in Idx : pc[i] = "wait" /\ items[i].name # NoName
    /\ \A i \in Idx : InGate(i) => RequestInFlight(i)

(* C2: when a run over a valid manifest of K records has finished, every   *)
(* record has produced exactly one outcome, and downloaded_count +         *)
(* failed_count = K.                                                       *)
C2_OneOutcomePerRecord ==
    (Finished /\ ValidManifest) =>
        /\ \A i \in Idx : Len(produced[i]) = 1
        /\ downloaded_count = Cardinality({ i \in Idx : produced[i] = <<"Success">> })
        /\ failed_count = Cardinality({ i \in Idx : produced[i] = <<"Failed">> })
        /\ downloaded_count + failed_count = Len(items)

\* a finished run of NumItems records that met a success, and a transport
\* exception or an HTTP error
C2_Witness ==
    /\ Finished /\ ValidManifest /\ Len(items) = NumItems
    /\ downloaded_count > 0 /\ failed_count > 0
    /\ \E i \in Idx : TransportFault(i)

(* C3: failure isolation.  When a request of one item raises, every other  *)
(* item still ends with its own outcome, which depends on its own answers  *)
(* only (Success when its own steps succeeded); the faulty item ends with  *)
(* exactly one Failed outcome and exactly one line of the error log, which *)
(* names it.                                                               *)
C3_FailureIsolation ==
    (Finished /\ ValidManifest) =>
        \A i \in Idx :
            /\ Len(produced[i]) = 1
            /\ OwnStepsSucceeded(i) <=> produced[i] = <<"Success">>
            /\ OwnStepsSucceeded(i) => LinesOf(errors, i) = {}
            /\ TransportFault(i) =>
                 /\ produced[i] = <<"Failed">>
                 /\ LogExists
                 /\ Cardinality(LinesOf(LogNow.body, i)) = 1
                 /\ \A k \in LinesOf(LogNow.body, i) :
                        /\ LogNow.body[k].kind = "exception"
                        /\ LogNow.body[k].name = items[i].name

\* one item met a transport exception, every other item succeeded, and the
\* log holds the one line
C3_Witness ==
    /\ Finished /\ ValidManifest /\ Len(items) = NumItems
    /\ \E i \in Idx :
          /\ i < Len(items)
          /\ TransportFault(i)
          /\ \A j \in Idx \ {i} : produced[j] = <<"Success">>
    /\ failed_count = 1 /\ downloaded_count = NumItems - 1
    /\ LogExists /\ Len(LogNow.body) = 1

-----------------------------------------------------------------------------
(* C4: get_unique_filename *)

\* the reservations made so far: item, position, name returned, registry probed
ReservationsOf(i) ==
    { [item |-> i, k |-> k, name |-> reserved[i][k].name, used |-> reserved[i][k].used]
        : k \in 1..Len(reserved[i]) }

AllReservations == UNION { ReservationsOf(i) : i \in Idx }

Suffix(k) == IF k = 0 THEN <<>> ELSE Str(k)

\* the extension an item asks a name for
AskedExtension(i) == reqs[i][Len(reqs[i])].ext

\* the reservations asked with base name b and extension e
Asked(b, e) ==
    { r \in AllReservations : items[r.item].name = b /\ AskedExtension(r.item) = e }

NoDuplicateName ==
    \A r1, r2 \in AllReservations : r1.name = r2.name => r1 = r2

\* base+extension if unreserved, else base+k+extension for the smallest
\* unreserved k >= 1; the name is added to the registry
SmallestFreeName ==
    \A r \in AllReservations :
        LET b == items[r.item].name
            e == AskedExtension(r.item)
        IN  /\ r.name \notin r.used
            /\ r.name \in used_filenames
            /\ \/ r.name = b \o e
               \/ /\ b \o e \in r.used
                  /\ \E k \in 1..(Cardinality(r.used) + 1) :
                        /\ r.name = b \o Str(k) \o e
                        /\ \A m \in 1..(k - 1) : b \o Str(m) \o e \in r.used

\* the N names reserved for (b, e) carry the suffixes "", "1", ..., "N-1"
NumberedInSequence(b, e) ==
    { r.name : r \in Asked(b, e) }
        = { b \o Suffix(k) \o e : k \in 0..(Cardinality(Asked(b, e)) - 1) }

\* no reservation for another base name returned a name b+digits+e
NoForeignName(b, e) ==
    \A r \in AllReservations :
        items[r.item].name # b =>
            r.name \notin { b \o Suffix(k) \o e : k \in 0..Len(items) }

(* C4, as stated: no name is returned twice for one registry; the name is  *)
(* base+extension or base+k+extension for the smallest free k >= 1 and is  *)
(* added to the registry at once; N reservations of one base name and      *)
(* extension yield the suffixes "", "1", ..., "N-1".                       *)
C4_AsStated ==
    /\ NoDuplicateName
    /\ SmallestFreeName
    /\ \A b \in EmojiNames : \A e \in {GIF, WEBP} : NumberedInSequence(b, e)

(* C4, amended: as stated, the suffixes being "", "1", ..., "N-1" when no  *)
(* reservation for a different base name has returned a name of the form   *)
(* base+digits+extension.                                                  *)
C4_UniqueNames ==
    /\ NoDuplicateName
    /\ SmallestFreeName
    /\ \A b \in EmojiNames : \A e \in {GIF, WEBP} :
          NoForeignName(b, e) => NumberedInSequence(b, e)

\* NameItems records of one name have each reserved a name
C4_Witness ==
    /\ \A i \in Idx : items[i].name = <<"a">> /\ Len(reserved[i]) = 1
    /\ Cardinality(Asked(<<"a">>, WEBP)) = NameItems

-----------------------------------------------------------------------------
\* the paths an item left something at
PathsOf(i) == { wrote[i][k].path : k \in 1..Len(wrote[i]) }

(* C5: two distinct sticker records that both end in Success are never     *)
(* written to the same file path.                                          *)
C5_StickerPathsDistinct ==
    kind = "sticker" =>
        \A i, j \in Idx :
            (i # j /\ produced[i] = <<"Success">> /\ produced[j] = <<"Success">>)
                => PathsOf(i) \cap PathsOf(j) = {}

-----------------------------------------------------------------------------
\* the initial request of the item has answered
InitialAnswered(i) == reqs[i] # <<>> /\ reqs[i][1].res # "pending"

(* C6: an emoji item issues the .webp fallback request if and only if its  *)
(* initial request was for .gif (animated is true) and answered 415; any   *)
(* other failure of the initial request ends the item as Failed at once;   *)
(* no item issues more than two requests.                                  *)
C6_BoundedRetry ==
    kind = "emoji" =>
        \A i \in Idx :
            /\ Len(reqs[i]) <= 2
            /\ InitialAnswered(i) =>
                 /\ Len(reqs[i]) = 2 <=>
                      /\ items[i].animated = "true"
                      /\ reqs[i][1].ext = GIF
                      /\ reqs[i][1].res = "415"
                 /\ Len(reqs[i]) = 2 => reqs[i][2].ext = WEBP
                 /\ (Len(reqs[i]) = 1 /\ reqs[i][1].res # "200") =>
                      pc[i] = "done" /\ produced[i] = <<"Failed">>

\* one item is in its fallback request; another, not animated, got 415 and failed
C6_Witness ==
    /\ kind = "emoji"
    /\ \E i, j \in Idx :
          /\ pc[i] = "fallback" /\ Len(reqs[i]) = 2
          /\ items[j].animated # "true" /\ reqs[j] # <<>> /\ reqs[j][1].res = "415"
          /\ produced[j] = <<"Failed">>

-----------------------------------------------------------------------------
\* the item asked for .gif, got 415, asked for .webp and got 200
FallbackAnswered200(i) ==
    /\ Len(reqs[i]) = 2
    /\ reqs[i][1].ext = GIF /\ reqs[i][1].res = "415"
    /\ reqs[i][2].ext = WEBP /\ reqs[i][2].res = "200"

EndsWith(name, ext) ==
    /\ Len(name) >= Len(ext)
    /\ SubSeq(name, Len(name) - Len(ext) + 1, Len(name)) = ext

\* Success, one file written, named as reserved with .webp, nothing with .gif
SavedAsWebpOnly(i) ==
    /\ produced[i] = <<"Success">>
    /\ Len(reserved[i]) = 1 /\ EndsWith(reserved[i][1].name, WEBP)
    /\ Len(wrote[i]) = 1 /\ wrote[i][1].path = Path(reserved[i][1].name)
    /\ Path(reserved[i][1].name) \in DOMAIN files
    /\ \A r \in ReservationsOf(i) : ~EndsWith(r.name, GIF)
    /\ \A p \in PathsOf(i) : ~EndsWith(p, GIF)

(* C7, as stated: an animated emoji whose .gif request answers 415 and     *)
(* whose .webp request answers 200 ends in Success with exactly one file,  *)
(* a .webp, and no .gif name or file.                                      *)
C7_AsStated ==
    kind = "emoji" =>
        \A i \in Idx :
            (pc[i] = "done" /\ FallbackAnswered200(i)) => SavedAsWebpOnly(i)

(* C7, amended: the same, for an item whose .webp body is then read and    *)
(* written without an exception.                                           *)
C7_FallbackSavesWebp ==
    kind = "emoji" =>
        \A i \in Idx :
            (pc[i] = "done" /\ FallbackAnswered200(i) /\ OwnStepsSucceeded(i))
                => SavedAsWebpOnly(i)

\* an item went through the fallback and was saved
C7_Witness ==
    /\ kind = "emoji"
    /\ \E i \in Idx :
          /\ pc[i] = "done" /\ FallbackAnswered200(i) /\ OwnStepsSucceeded(i)
          /\ items[i].animated = "true"
          /\ produced[i] = <<"Success">>

-----------------------------------------------------------------------------
(* C8: every sticker whose request answers 200 and whose body is read ends *)
(* in Success, whichever error decoding, frame extraction or encoding      *)
(* raises (a failed write of the raw bytes set aside).                     *)
C8_OnlyFetchFails ==
    kind = "sticker" =>
        \A i \in Idx :
            (/\ pc[i] = "done" /\ reqs[i] # <<>>
             /\ reqs[i][1].res = "200" /\ reqs[i][1].body = "ok"
             /\ reqs[i][1].stored # "write_error")
                => produced[i] = <<"Success">>

-----------------------------------------------------------------------------
C10_LogOnlyIfFailures ==
    Finished => (LogExists => failed_count > 0)

-----------------------------------------------------------------------------
(* C11: a manifest with a record that lacks name or id is fatal to the     *)
(* run: no item is fetched, no file is written and no outcome is produced. *)
C11_MalformedIsFatal ==
    ~ValidManifest =>
        /\ \A i \in Idx : reqs[i] = <<>> /\ produced[i] = <<>>
        /\ DOMAIN files = {}
        /\ downloaded_count = 0 /\ failed_count = 0

-----------------------------------------------------------------------------
\* the writes of item i that met a filesystem error
WriteErrorsOf(i) == IF reqs[i] = <<>> THEN {} ELSE reqs[i][Len(reqs[i])].werr

LastWrite(i) == wrote[i][Len(wrote[i])]

(* C12 as stated: a filesystem write error while storing an item's bytes   *)
(* makes the item Failed with an error line, on every write path.          *)
C12_AsStated ==
    \A i \in Idx :
        pc[i] = "done" /\ WriteErrorsOf(i) # {} =>
            produced[i] = <<"Failed">> /\ LinesOf(errors, i) # {}

(* C12: a filesystem write error never aborts the run or the other items.  *)
(* It makes the item Failed, with one error line, when it hits an emoji    *)
(* write or a sticker's raw-byte write.  A write error of a sticker's GIF  *)
(* save or still-PNG save is caught like a decode error: the sticker falls *)
(* back to the next form and is a Success when a later write succeeds.     *)
C12_WriteErrorFails ==
    /\ \A i \in Idx :
         pc[i] = "done" /\ WriteErrorsOf(i) # {} =>
            /\ Len(produced[i]) = 1
            /\ kind = "emoji" \/ "raw" \in WriteErrorsOf(i) =>
                  /\ produced[i] = <<"Failed">>
                  /\ Cardinality(LinesOf(errors, i)) = 1
                  /\ \A k \in LinesOf(errors, i) : errors[k].kind = "exception"
            /\ kind = "emoji" => wrote[i] = <<>>
            /\ "still" \in WriteErrorsOf(i) /\ "raw" \notin WriteErrorsOf(i) =>
                  /\ produced[i] = <<"Success">>
                  /\ LastWrite(i).content.form = "raw"
            /\ WriteErrorsOf(i) = {"gif"} =>
                  \/ /\ produced[i] = <<"Success">>
                     /\ LastWrite(i).content.form \in {"still", "raw"}
                     /\ EndsWith(LastWrite(i).path, PNG)
                  \/ /\ produced[i] = <<"Failed">>
                     /\ reqs[i][Len(reqs[i])].stored = "uncaught"
    /\ failed_count = Cardinality({ i \in Idx : produced[i] = <<"Failed">> })
    /\ Finished /\ ValidManifest => \A i \in Idx : Len(produced[i]) = 1

C12_Witness ==
    /\ Finished /\ kind = "sticker" /\ Len(items) = 2
    /\ WriteErrorsOf(1) = {"gif"} /\ produced[1] = <<"Success">>
    /\ "raw" \in WriteErrorsOf(2) /\ produced[2] = <<"Failed">>

-----------------------------------------------------------------------------
\* the item's last request was answered with a status other than 200
EndedNon200(i) ==
    /\ pc[i] = "done" /\ reqs[i] # <<>>
    /\ reqs[i][Len(reqs[i])].res \in Statuses \ {"200"}

(* C13: an item whose last request (the sticker request, the emoji initial *)
(* request that does not qualify for the fallback, or the emoji fallback   *)
(* request) is answered with a non-200 status is Failed with an HTTP error *)
(* line, and it wrote no file and reserved no name; a name is reserved     *)
(* only by an item whose body has been read for writing.                   *)
C13_Non200LeavesNothing ==
    /\ \A i \in Idx :
         EndedNon200(i) =>
            /\ produced[i] = <<"Failed">>
            /\ Cardinality(LinesOf(errors, i)) = 1
            /\ \A k \in LinesOf(errors, i) :
                  /\ errors[k].kind = "http"
                  /\ errors[k].status = reqs[i][Len(reqs[i])].res
            /\ reserved[i] = <<>> /\ wrote[i] = <<>>
            /\ \A p \in DOMAIN files : files[p].id # i
    /\ \A i \in Idx :
         reserved[i] # <<>> =>
            /\ reqs[i][Len(reqs[i])].res = "200"
            /\ reqs[i][Len(reqs[i])].body = "ok"
    /\ used_filenames = { r.name : r \in AllReservations }

C13_Witness ==
    /\ Finished /\ kind = "emoji" /\ Len(items) = 2
    /\ EndedNon200(1) /\ Len(reqs[1]) = 2
    /\ EndedNon200(2) /\ Len(reqs[2]) = 1
    /\ used_filenames = {} /\ DOMAIN files = {}

-----------------------------------------------------------------------------
OnlyDotsAndSpaces(s) == \A k \in 1..Len(s) : s[k] \in {".", " "}

(* C14: sanitize_filename is idempotent; its result is never empty, holds  *)
(* none of < > : " / \ | ? * and does not end in a dot or a space; the     *)
(* empty string, or one of dots and spaces only, gives "unnamed".  The     *)
(* files of a sticker are written under the sanitized name.                *)
C14_Sanitize ==
    \A i \in Idx :
        LET name == items[i].name
            safe_name == sanitize_filename(name)
        IN  /\ sanitize_filename(safe_name) = safe_name
            /\ safe_name # <<>>
            /\ \A k \in 1..Len(safe_name) : safe_name[k] \notin IllegalChars
            /\ safe_name[Len(safe_name)] \notin {".", " "}
            /\ OnlyDotsAndSpaces(name) => safe_name = Unnamed
            /\ kind = "sticker" =>
                  \A k \in 1..Len(wrote[i]) :
                      wrote[i][k].path \in { Path(safe_name \o PNG), Path(safe_name \o GIF) }

C14_Witness ==
    /\ Finished /\ kind = "sticker"
    /\ items[1].name = <<"?", ".", " ">>
    /\ wrote[1] # <<>>
    /\ \A k \in 1..Len(wrote[1]) : wrote[1][k].path = Path(<<"_">> \o PNG)

-----------------------------------------------------------------------------
(* C15: the error line of an emoji that fails after the .webp request was  *)
(* issued notes both attempted extensions, whether the .webp request was   *)
(* answered with a non-200 status or raised.                               *)
C15_FallbackNotesBoth ==
    \A i \in Idx :
        kind = "emoji" /\ pc[i] = "done" /\ Len(reqs[i]) = 2
            /\ produced[i] = <<"Failed">> =>
                /\ LinesOf(errors, i) # {}
                /\ \A k \in LinesOf(errors, i) : errors[k].both

-----------------------------------------------------------------------------
\* the item asked get_unique_filename for a name: its last request was
\* answered 200 and the body was read
Reserves(i) ==
    /\ reqs[i] # <<>>
    /\ reqs[i][Len(reqs[i])].res = "200"
    /\ reqs[i][Len(reqs[i])].body = "ok"

\* the registry after the first n records, were they served one after another
\* in list order (the only order a run with max_concurrent = 1 can take)
RECURSIVE SequentialRegistry(_)
SequentialRegistry(n) ==
    IF n = 0 THEN {}
    ELSE LET used == SequentialRegistry(n - 1)
         IN  IF Reserves(n)
             THEN used \cup { get_unique_filename(items[n].name, AskedExtension(n), used) }
             ELSE used

SequentialName(i) ==
    get_unique_filename(items[i].name, AskedExtension(i), SequentialRegistry(i - 1))

(* C16: for a fixed manifest and fixed responses the name assigned to an   *)
(* emoji is the same in every run, whatever the concurrency limit and the  *)
(* order in which the responses complete: in every finished run it is the  *)
(* name the run with max_concurrent = 1, which serves the records in list  *)
(* order, assigns for the same manifest and responses.                     *)
C16_StableNumbering ==
    Finished /\ kind = "emoji" =>
        \A i \in Idx : reserved[i] # <<>> => reserved[i][1].name = SequentialName(i)

-----------------------------------------------------------------------------
\* the item has issued a request and its outcome is not recorded yet
Working(i) == reqs[i] # <<>> /\ produced[i] = <<>>

WorkingCount == Cardinality({ i \in Idx : Working(i) })

\* nothing of the item's task is left to do
FullyCompleted(i) ==
    /\ pc[i] = "done" /\ Len(produced[i]) = 1
    /\ \A k \in 1..Len(reqs[i]) : reqs[i][k].res # "pending"
    /\ LET last == reqs[i][Len(reqs[i])]
       IN  /\ last.res = "200" => last.body # "unread"
           /\ last.body = "ok" => last.stored # "none"
           /\ kind = "emoji" /\ NeedsFallback(items[i], reqs[i][1].res) => Len(reqs[i]) = 2

(* C17: a task gives its permit back only when it is fully completed       *)
(* (fallback request, disk write and recording of the outcome included),   *)
(* never merely after the network read: the permits out are exactly those  *)
(* of the items at work, an item that has left the gate has nothing left   *)
(* to do, and the items with a request or a write in progress are at most  *)
(* max_concurrent.                                                         *)
C17_PermitHeldToTheEnd ==
    /\ permits >= 0
    /\ permits + WorkingCount = max_concurrent
    /\ WorkingCount <= max_concurrent
    /\ \A i \in Idx : RequestInFlight(i) => Working(i)
    /\ \A i \in Idx : reqs[i] # <<>> /\ ~Working(i) => FullyCompleted(i)

\* with one permit, the second record waits while the first is on its
\* fallback request
C17_Witness ==
    /\ max_concurrent = 1 /\ permits = 0 /\ Len(items) = 2
    /\ pc[1] = "fallback" /\ Len(reqs[1]) = 2
    /\ pc[2] = "wait"

-----------------------------------------------------------------------------
(* C18: a sticker that is a Success leaves exactly one file: {name}.gif    *)
(* when the multi-frame encoding succeeded, {name}.png otherwise; nothing  *)
(* of a failed multi-frame encoding stays at {name}.gif beside the         *)
(* fallback {name}.png.                                                    *)
C18_OneFilePerSticker ==
    \A i \in Idx :
        kind = "sticker" /\ produced[i] = <<"Success">> =>
            LET safe_name == sanitize_filename(items[i].name)
            IN  /\ Cardinality(PathsOf(i)) = 1
                /\ PathsOf(i) \subseteq { Path(safe_name \o GIF), Path(safe_name \o PNG) }
                /\ PathsOf(i) = { Path(safe_name \o GIF) }
                       <=> LastWrite(i).content.form = "gif"
                /\ \A k \in 1..Len(wrote[i]) : wrote[i][k].content.form # "partial"

-----------------------------------------------------------------------------
\* the file name of a path under the output folder
FileName(path) == SubSeq(path, 3, Len(path))

(* C19: the name of every file written, under emojis/ as under stickers/,  *)
(* holds none of < > : " / \ | ? * and is built from the sanitized record  *)
(* name, a collision suffix and the extension.                             *)
C19_PathsSanitized ==
    \A i \in Idx : \A k \in 1..Len(wrote[i]) :
        LET filename == FileName(wrote[i][k].path)
        IN  /\ \A c \in 1..Len(filename) : filename[c] \notin IllegalChars
            /\ \E n \in 0..Len(items) : \E e \in {GIF, WEBP, PNG} :
                  filename = sanitize_filename(items[i].name) \o Suffix(n) \o e

-----------------------------------------------------------------------------
\* no coroutine is inside the gate
GateEmpty == \A i \in Idx : pc[i] \in {"wait", "done"}

\* the run is over: every coroutine has been admitted and has ended, with one
\* outcome (a record without a name: with the KeyError gather keeps), and the
\* semaphore is full
Terminated ==
    /\ Finished
    /\ \A i \in Idx :
          /\ pc[i] = "done"
          /\ IF items[i].name = NoName THEN escaped[i] /\ produced[i] = <<>>
             ELSE ~escaped[i] /\ Len(produced[i]) = 1
    /\ permits = max_concurrent

(* C20: when every request that is issued returns, raises or times out,    *)
(* every item's task is admitted and ends and the run terminates, for      *)
(* every manifest and every limit >= 1, each well-formed record with one   *)
(* outcome; the permit is given back on every exit path, exceptions        *)
(* included, so all max_concurrent permits are free whenever the gate is   *)
(* empty and when the run has ended.                                       *)
C20_TerminatesPermitsFree ==
    /\ <>Terminated
    /\ [](GateEmpty => permits = max_concurrent)

\* with one permit, a record whose KeyError leaves the coroutine and a record
\* whose request raised: the run has ended and the permit is free
C20_Witness ==
    /\ Terminated /\ max_concurrent = 1 /\ Len(items) = 2
    /\ escaped[1] /\ TransportFault(2)

=============================================================================
